---- MODULE Spec2Model ----
(***************************************************************************)
(* get_config of salt/modules/boto3_asg.py: one invocation, from the state *)
(* after `retries = 30` (line 138) to its return or to the exception it    *)
(* lets through.  The autoscaling provider behind `client` and `conn` is   *)
(* the environment: it holds the group list, the policies and the          *)
(* scheduled actions, and every call to it either answers or raises.       *)
(*                                                                         *)
(* Python values whose type decides the behaviour are tagged records       *)
(* [t |-> type, v |-> payload]; a str whose characters matter is a         *)
(* sequence of one-character strings; an OrderedDict is a sequence of      *)
(* <<key, value>> pairs in insertion order; a plain dict keyed by strings  *)
(* is a function.                                                          *)
(***************************************************************************)
EXTENDS Integers, Sequences, FiniteSets, TLC

VARIABLES
    pc,             \* position of the invocation in get_config
    retries,        \* local `retries`
    asg,            \* local `asg`: <<>> is None, <<g>> is the group dict g
    ret,            \* local `ret`, the OrderedDict under construction
    exc,            \* the exception being handled, or that ended the invocation
    result,         \* <<>> until get_config returns, then <<returned value>>
    calls,          \* provider calls made so far, per operation
    sleeps,         \* number of time.sleep calls made so far
    slept,          \* seconds slept so far
    log,            \* messages logged so far, per level
    provider,       \* what the provider holds: groups, policies, actions
    throttleBudget, \* Throttling answers the provider may still give
    running,        \* which invocation the variables above belong to: 1 or 2
    parked          \* the locals of the other invocation while it does not run

vars == <<pc, retries, asg, ret, exc, result, calls, sleeps, slept, log,
          provider, throttleBudget, running, parked>>

-----------------------------------------------------------------------------
(* Bounds of the model *)

\* Throttling answers available to the provider in Spec: more than one
\* invocation can consume, so a provider that always throttles is covered.
MaxThrottles == 31
\* Throttling answers available to the provider in DataSpec.
DataThrottles == 1
\* Longest VPCZoneIdentifier string, in characters.
MaxVpcLen == 3
\* Longest SuspendedProcesses list.
MaxProcs == 2
\* Longest desired_capacity string of a scheduled action, in characters.
MaxCapLen == 3
\* Longest list of scheduled actions.
MaxActions == 2

\* Most throttling answers the provider gives while its data change.
ChangeThrottles == 3

\* Most throttling answers the provider gives to two interleaved invocations.
TwoThrottles == 2

-----------------------------------------------------------------------------
(* Program constants *)

\* retries = 30
Retries == 30
SleepSecondsGrowing == 5 * (sleeps + 1)

\* time.sleep(5)
SleepSeconds == 5

-----------------------------------------------------------------------------
(* Python values *)

PyNone == [t |-> "None", v |-> <<>>]
PyStr(chars) == [t |-> "str", v |-> chars]
PyList(items) == [t |-> "list", v |-> items]
PyInt(n) == [t |-> "int", v |-> <<n>>]
PyFloat(whole, frac) == [t |-> "float", v |-> <<whole, frac>>]
PyDatetime(n) == [t |-> "datetime", v |-> <<n>>]

\* Code points of the characters the model's strings are made of.
Ord(c) ==
    CASE c = "," -> 44
      [] c = "." -> 46
      [] c = "0" -> 48
      [] c = "3" -> 51
      [] c = "4" -> 52
      [] c = "A" -> 65
      [] c = "a" -> 97
      [] c = "b" -> 98

\* s < t on Python strings: lexicographic by code point, a proper prefix first.
RECURSIVE StrLess(_, _)
StrLess(s, t) ==
    IF Len(t) = 0 THEN FALSE
    ELSE IF Len(s) = 0 THEN TRUE
    ELSE IF Ord(Head(s)) # Ord(Head(t)) THEN Ord(Head(s)) < Ord(Head(t))
    ELSE StrLess(Tail(s), Tail(t))

\* sorted(names): insertion of each element after the elements not greater
\* than it, which is the stable ascending order sorted() produces.
RECURSIVE Insert(_, _)
Insert(sortedSeq, x) ==
    IF Len(sortedSeq) = 0 THEN <<x>>
    ELSE IF StrLess(x, Head(sortedSeq)) THEN <<x>> \o sortedSeq
    ELSE <<Head(sortedSeq)>> \o Insert(Tail(sortedSeq), x)

RECURSIVE SortedFrom(_, _)
SortedFrom(acc, rest) ==
    IF Len(rest) = 0 THEN acc
    ELSE SortedFrom(Insert(acc, Head(rest)), Tail(rest))

Unsorted(names) == names

Sorted(names) == SortedFrom(<<>>, names)

\* Index of the first "," of chars, 0 when there is none.
RECURSIVE FindComma(_, _)
FindComma(chars, i) ==
    IF i > Len(chars) THEN 0
    ELSE IF chars[i] = "," THEN i
    ELSE FindComma(chars, i + 1)

\* The split that drops empty pieces, as chars.split() does on whitespace.
RECURSIVE SplitCharsDropEmpty(_)
SplitCharsDropEmpty(chars) ==
    LET i == FindComma(chars, 1)
        first == IF i = 0 THEN chars ELSE SubSeq(chars, 1, i - 1)
        rest == IF i = 0 THEN <<>> ELSE SplitCharsDropEmpty(SubSeq(chars, i + 1, Len(chars)))
    IN  IF Len(first) = 0 THEN rest ELSE <<first>> \o rest

\* chars.split(","): the pieces between the commas, empty pieces kept.
RECURSIVE SplitChars(_)
SplitChars(chars) ==
    LET i == FindComma(chars, 1)
    IN  IF i = 0 THEN <<chars>>
        ELSE <<SubSeq(chars, 1, i - 1)>> \o SplitChars(SubSeq(chars, i + 1, Len(chars)))

\* An OrderedDict is a sequence of <<key, value>> pairs.
EmptyDict == <<>>

Keys(d) == [i \in 1..Len(d) |-> d[i][1]]

HasKey(d, k) == Len(SelectSeq(d, LAMBDA p : p[1] = k)) > 0

Lookup(d, k) == d[CHOOSE i \in 1..Len(d) : d[i][1] = k][2]

\* d[k] = v: a new key goes last, an existing key keeps its place.
DictSet(d, k, v) ==
    LET Stored(x) ==
            IF HasKey(x, k)
            THEN [i \in 1..Len(x) |-> IF x[i][1] = k THEN <<k, v>> ELSE x[i]]
            ELSE Append(x, <<k, v>>)
    IN  CHOOSE r \in {Stored(x) : x \in {d}} : TRUE

-----------------------------------------------------------------------------
(* Exceptions *)

NoExc == [cls |-> "", code |-> "", at |-> ""]

BotoServerError(code) == [cls |-> "BotoServerError", code |-> code]

\* What a provider call can raise: a BotoServerError that reports throttling,
\* one that reports another code, or an exception of another class.
ProviderErrors ==
    {BotoServerError("Throttling"), BotoServerError("ValidationError"),
     [cls |-> "Exception", code |-> ""]}

CaughtClientError(e) == e.cls = "ClientError"

CaughtAnyException(e) == TRUE

\* except boto.exception.BotoServerError as e:
Caught(e) == e.cls = "BotoServerError"

ShouldRetryOnAnyCode(r, e) == r # 0

ShouldRetryOneLess(r, e) == r > 1 /\ e.code = "Throttling"

\* if retries and e.code == 'Throttling':
ShouldRetry(r, e) == r # 0 /\ e.code = "Throttling"

-----------------------------------------------------------------------------
(* The rename table and the attribute loop *)

AttrKeyLookupSwapped ==
    << <<"availability_zones", "AvailabilityZones">>,
       <<"name", "AutoScalingGroupName">>,
       <<"default_cooldown", "DefaultCooldown">>,
       <<"desired_capacity", "DesiredCapacity">>,
       <<"health_check_period", "HealthCheckGracePeriod">>,
       <<"health_check_type", "HealthCheckType">>,
       <<"launch_config_name", "LaunchConfigurationName">>,
       <<"load_balancers", "LoadBalancerNames">>,
       <<"max_size", "MaxSize">>,
       <<"min_size", "MinSize">>,
       <<"vpc_zone_identifier", "VPCZoneIdentifier">>,
       <<"tags", "Tags">>,
       <<"termination_policies", "TerminationPolicies">>,
       <<"suspended_processes", "SuspendedProcesses">> >>

\* attr_key_lookup, in the order the dict literal lists its items.
AttrKeyLookup ==
    << <<"name", "AutoScalingGroupName">>,
       <<"availability_zones", "AvailabilityZones">>,
       <<"default_cooldown", "DefaultCooldown">>,
       <<"desired_capacity", "DesiredCapacity">>,
       <<"health_check_period", "HealthCheckGracePeriod">>,
       <<"health_check_type", "HealthCheckType">>,
       <<"launch_config_name", "LaunchConfigurationName">>,
       <<"load_balancers", "LoadBalancerNames">>,
       <<"max_size", "MaxSize">>,
       <<"min_size", "MinSize">>,
       <<"vpc_zone_identifier", "VPCZoneIdentifier">>,
       <<"tags", "Tags">>,
       <<"termination_policies", "TerminationPolicies">>,
       <<"suspended_processes", "SuspendedProcesses">> >>

TagFields == {"Key", "Value", "PropagateAtLaunch"}

\* The _tag OrderedDict built for one provider tag.
ConvertTag(tag) ==
    << <<"key", tag["Key"]>>, <<"value", tag["Value"]>>,
       <<"propagate_at_launch", tag["PropagateAtLaunch"]>> >>

\* asg[keyname].split(",") on a str
SplitVpc(vpc) ==
    PyList([i \in 1..Len(SplitChars(vpc.v)) |-> PyStr(SplitChars(vpc.v)[i])])

\* The exception class the loop body raises for attr, "" when it raises none.
AttrError(attr, keyname, g) ==
    IF attr = "placement_group" THEN ""
    ELSE IF keyname \notin DOMAIN g THEN "KeyError"
    ELSE IF attr = "tags"
    THEN IF \E i \in 1..Len(g[keyname]) : ~(TagFields \subseteq DOMAIN g[keyname][i])
         THEN "KeyError" ELSE ""
    ELSE IF attr = "vpc_zone_identifier"
    THEN IF g[keyname].t # "str" THEN "AttributeError" ELSE ""
    ELSE IF attr = "suspended_processes"
    THEN IF \E i \in 1..Len(g[keyname]) : "ProcessName" \notin DOMAIN g[keyname][i]
         THEN "KeyError" ELSE ""
    ELSE ""

\* The value the loop body stores under attr.
AttrValue(attr, keyname, g) ==
    IF attr = "tags"
    THEN [i \in 1..Len(g[keyname]) |-> ConvertTag(g[keyname][i])]
    ELSE IF attr = "vpc_zone_identifier"
    THEN SplitVpc(g[keyname])
    ELSE IF attr = "suspended_processes"
    THEN Sorted([i \in 1..Len(g[keyname]) |-> g[keyname][i]["ProcessName"]])
    ELSE g[keyname]

\* for attr, keyname in attr_key_lookup.items(): ... from item i on, with the
\* OrderedDict built so far; stops at the first item that raises.
RECURSIVE BuildFrom(_, _, _)
BuildFrom(i, g, d) ==
    IF i > Len(AttrKeyLookup) THEN [exc |-> "", ret |-> d]
    ELSE LET attr == AttrKeyLookup[i][1]
             keyname == AttrKeyLookup[i][2]
         IN  IF AttrError(attr, keyname, g) # ""
             THEN [exc |-> AttrError(attr, keyname, g), ret |-> d]
             ELSE IF attr = "placement_group"
             THEN BuildFrom(i + 1, g, d)
             ELSE BuildFrom(i + 1, g, DictSet(d, attr, AttrValue(attr, keyname, g)))

-----------------------------------------------------------------------------
(* Scaling policies and scheduled actions *)

\* The dict built for one policy object.
ConvertPolicy(policy) ==
    [name |-> policy.name,
     adjustment_type |-> policy.adjustment_type,
     scaling_adjustment |-> policy.scaling_adjustment,
     min_adjustment_step |-> policy.min_adjustment_step,
     cooldown |-> policy.cooldown]

Digit(c) == Ord(c) - 48

IsDigit(c) == Ord(c) >= 48 /\ Ord(c) <= 57

RECURSIVE DigitsValue(_, _)
DigitsValue(chars, acc) ==
    IF Len(chars) = 0 THEN acc
    ELSE DigitsValue(Tail(chars), 10 * acc + Digit(Head(chars)))

\* Whether int(float(x)) raises: a "." among the digits is accepted.
IntViaFloatRaises(x) ==
    /\ x.t = "str"
    /\ \/ Len(x.v) = 0
       \/ \E i \in 1..Len(x.v) : ~IsDigit(x.v[i]) /\ x.v[i] # "."

\* Whether int(x) raises: it does on a str that is not a run of digits.
IntRaises(x) ==
    /\ x.t = "str"
    /\ \/ Len(x.v) = 0
       \/ \E i \in 1..Len(x.v) : ~IsDigit(x.v[i])

\* int(x) where it raises nothing: an int is kept, a float is truncated, a
\* str of digits is read in base ten.
IntOf(x) ==
    IF x.t = "str" THEN DigitsValue(x.v, 0) ELSE x.v[1]

\* value.isoformat()
IsoFormat(dt) == [t |-> "isostr", v |-> dt.v]

\* The conversion with action.start_time guarded as action.end_time is.
ActionErrorStartGuarded(action) ==
    IF action.desired_capacity.t = "None" THEN "TypeError"
    ELSE IF IntRaises(action.desired_capacity) THEN "ValueError"
    ELSE ""

\* The exception class raised while converting one scheduled action.
ActionError(action) ==
    IF action.desired_capacity.t = "None" THEN "TypeError"
    ELSE IF IntRaises(action.desired_capacity) THEN "ValueError"
    ELSE IF action.start_time.t = "None" THEN "AttributeError"
    ELSE ""

\* The dict built for one scheduled action.
ConvertAction(action) ==
    [min_size |-> action.min_size,
     max_size |-> action.max_size,
     desired_capacity |-> IntOf(action.desired_capacity),
     start_time |-> IsoFormat(action.start_time),
     end_time |-> IF action.end_time.t = "None" THEN PyNone
                  ELSE IsoFormat(action.end_time),
     recurrence |-> action.recurrence]

\* The loop that keeps the entry a name already has.
RECURSIVE ActionsFromFirstWins(_, _, _)
ActionsFromFirstWins(i, actions, d) ==
    IF i > Len(actions) THEN [exc |-> "", dict |-> d]
    ELSE IF ActionError(actions[i]) # ""
    THEN [exc |-> ActionError(actions[i]), dict |-> d]
    ELSE ActionsFromFirstWins(i + 1, actions,
                     [n \in DOMAIN d \cup {actions[i].name} |->
                         IF n \in DOMAIN d THEN d[n] ELSE ConvertAction(actions[i])])

\* for action in actions: ... from action i on, with the dict built so far;
\* stops at the first action that raises.
RECURSIVE ActionsFrom(_, _, _)
ActionsFrom(i, actions, d) ==
    IF i > Len(actions) THEN [exc |-> "", dict |-> d]
    ELSE IF ActionError(actions[i]) # ""
    THEN [exc |-> ActionError(actions[i]), dict |-> d]
    ELSE ActionsFrom(i + 1, actions,
                     [n \in DOMAIN d \cup {actions[i].name} |->
                         IF n = actions[i].name THEN ConvertAction(actions[i]) ELSE d[n]])

-----------------------------------------------------------------------------
(* What the provider may hold *)

VpcChars == {"a", "b", ","}

\* Every string of at most MaxVpcLen characters.
VpcStrings == UNION {[1..n -> VpcChars] : n \in 0..MaxVpcLen}

SubnetIds == {<<"a">>, <<"b">>, <<"a", "b">>}

\* Lists of at most two subnet ids, as the elements a caller configured.
SubnetLists == UNION {[1..n -> SubnetIds] : n \in 0..2}

NativeList(ids) == PyList([i \in 1..Len(ids) |-> PyStr(ids[i])])

VpcValues == {PyStr(s) : s \in VpcStrings} \cup {NativeList(l) : l \in SubnetLists}

ProcessNames == {<<"A">>, <<"a">>, <<"A", "A">>, <<"A", "a">>, <<"a", "A">>, <<"a", "a">>}

ProcessLists == UNION {[1..n -> ProcessNames] : n \in 0..MaxProcs}

ProcessObjects(names) == [i \in 1..Len(names) |-> [ProcessName |-> names[i]]]

Tag1 == [Key |-> "env", Value |-> "prod", PropagateAtLaunch |-> TRUE]

Group(name, vpc, procs) ==
    [AutoScalingGroupName |-> name,
     AvailabilityZones |-> <<"us-east-1a">>,
     DefaultCooldown |-> 300,
     DesiredCapacity |-> 4,
     HealthCheckGracePeriod |-> 0,
     HealthCheckType |-> "EC2",
     LaunchConfigurationName |-> "lc",
     LoadBalancerNames |-> <<"elb">>,
     MaxSize |-> 10,
     MinSize |-> 2,
     VPCZoneIdentifier |-> vpc,
     Tags |-> <<Tag1>>,
     TerminationPolicies |-> <<"Default">>,
     SuspendedProcesses |-> ProcessObjects(procs)]

Policy1 ==
    [name |-> "scale-up", adjustment_type |-> "ChangeInCapacity",
     scaling_adjustment |-> 1, min_adjustment_step |-> 0, cooldown |-> 60]

Action1 ==
    [name |-> "nightly-scale", min_size |-> 1, max_size |-> 5,
     desired_capacity |-> PyStr(<<"3">>), start_time |-> PyDatetime(0),
     end_time |-> PyNone, recurrence |-> "0 2 * * *"]

World(groups) == [groups |-> groups, policies |-> <<Policy1>>, actions |-> <<Action1>>]

WorldOf(groups, policies, actions) ==
    [groups |-> groups, policies |-> policies, actions |-> actions]

Policy2 ==
    [name |-> "scale-down", adjustment_type |-> "ExactCapacity",
     scaling_adjustment |-> 2, min_adjustment_step |-> 1, cooldown |-> 30]

Action(name, minSize, cap, start, end) ==
    [name |-> name, min_size |-> minSize, max_size |-> 5,
     desired_capacity |-> cap, start_time |-> start,
     end_time |-> end, recurrence |-> "0 2 * * *"]

CapChars == {"4", ".", "0"}

\* Every desired_capacity string of at most MaxCapLen characters.
CapStrings == UNION {[1..n -> CapChars] : n \in 0..MaxCapLen}

\* What the provider may give as desired_capacity: an int, a float, a str.
CapValues ==
    {PyInt(3), PyInt(0), PyFloat(4, 0), PyFloat(4, 5)} \cup {PyStr(c) : c \in CapStrings}

\* What the provider may give as start_time or end_time.
TimeValues == {PyNone, PyDatetime(0), PyDatetime(1)}

NamedActions ==
    {Action(n, m, PyStr(<<"3">>), PyDatetime(0), PyNone) :
        n \in {"nightly-scale", "morning-scale"}, m \in {1, 2}}

ActionLists == UNION {[1..n -> NamedActions] : n \in 0..MaxActions}

PlainGroup == Group("web-asg", PyStr(<<"a">>), <<>>)

\* One group, with every scheduled action and every list of scheduled
\* actions within the bounds, and with no, one and two policies.
ActionWorlds ==
    {WorldOf(<<PlainGroup>>, <<Policy1>>,
             <<Action("nightly-scale", 1, cap, PyDatetime(0), PyNone)>>) : cap \in CapValues}
    \cup {WorldOf(<<PlainGroup>>, <<Policy1>>,
                  <<Action("nightly-scale", 1, PyStr(<<"3">>), start, end)>>) :
            start \in TimeValues, end \in TimeValues}
    \cup {WorldOf(<<PlainGroup>>, <<Policy1>>, actions) : actions \in ActionLists}
    \cup {WorldOf(<<PlainGroup>>, <<>>, <<Action1>>),
          WorldOf(<<PlainGroup>>, <<Policy2, Policy1>>, <<Action1>>)}

WebAsg == Group("web-asg", PyStr(<<"a", ",", "b">>), <<<<"a">>, <<"A">>>>)

OtherGroup ==
    [Group("other-asg", PyStr(<<"b">>), << <<"A">> >>)
        EXCEPT !.MaxSize = 20, !.MinSize = 1, !.DesiredCapacity = 1, !.Tags = <<>>]

\* More than one group record for the name: the first is well formed, and a
\* later one may be another group or a record that cannot be converted.
MultiGroupWorlds ==
    {World(<<PlainGroup, OtherGroup>>), World(<<OtherGroup, PlainGroup>>),
     World(<<PlainGroup, Group("web-asg", NativeList(<< <<"b">> >>), <<>>)>>),
     World(<<OtherGroup, PlainGroup, PlainGroup>>)}

\* The dict d without key k.
Without(d, k) == [f \in DOMAIN d \ {k} |-> d[f]]

ProviderFields == {AttrKeyLookup[i][2] : i \in 1..Len(AttrKeyLookup)}

\* A group record that lacks a field of the rename table, or has a tag or a
\* suspended process that lacks a field, or has no field at all.
MalformedWorlds ==
    {World(<<Without(PlainGroup, k)>>) : k \in ProviderFields}
    \cup {World(<<[PlainGroup EXCEPT !.Tags = <<Without(Tag1, f)>>]>>) : f \in TagFields}
    \cup {World(<<[PlainGroup EXCEPT !.Tags = <<Tag1, Without(Tag1, f)>>]>>) : f \in TagFields}
    \cup {World(<<[PlainGroup EXCEPT !.SuspendedProcesses =
                        <<Without([ProcessName |-> <<"a">>], "ProcessName")>>]>>),
          World(<<[f \in {} |-> 0]>>)}

\* Spec: no group, a well-formed group, and a group whose VPCZoneIdentifier
\* is a native list.
RetryWorlds ==
    {World(<<>>), World(<<WebAsg>>),
     World(<<Group("web-asg", NativeList(<<<<"a">>>>), <<>>)>>)}

\* DataSpec: one group, with every VPCZoneIdentifier value and every list of
\* suspended processes within the bounds.
DataWorlds ==
    {World(<<Group("web-asg", vpc, <<>>)>>) : vpc \in VpcValues}
    \cup {World(<<Group("web-asg", PyStr(<<"a">>), procs)>>) : procs \in ProcessLists}
    \cup ActionWorlds
    \cup MultiGroupWorlds
    \cup MalformedWorlds

-----------------------------------------------------------------------------
(* The invocation *)

\* The locals of an invocation that has just been entered, with what it has
\* done so far.
FreshLocals ==
    [pc |-> "describe", retries |-> Retries, asg |-> <<>>, ret |-> EmptyDict,
     exc |-> NoExc, result |-> <<>>,
     calls |-> [describe |-> 0, policies |-> 0, actions |-> 0],
     sleeps |-> 0, slept |-> 0]

InitLocals ==
    /\ pc = "describe"
    /\ retries = Retries
    /\ asg = <<>>
    /\ ret = EmptyDict
    /\ exc = NoExc
    /\ result = <<>>
    /\ calls = [describe |-> 0, policies |-> 0, actions |-> 0]
    /\ sleeps = 0
    /\ slept = 0
    /\ log = [debug |-> 0, error |-> 0]
    /\ running = 1
    /\ parked = FreshLocals

Init ==
    /\ InitLocals
    /\ provider \in RetryWorlds
    /\ throttleBudget = MaxThrottles

InitData ==
    /\ InitLocals
    /\ provider \in DataWorlds
    /\ throttleBudget = DataThrottles

\* The answers a provider call can get: NoExc for a normal return.
CallOutcomes ==
    {NoExc} \cup
    {[cls |-> e.cls, code |-> e.code, at |-> ""] : e \in
        {x \in ProviderErrors : x.code = "Throttling" => throttleBudget > 0}}

\* An exception e raised at `at` inside the try block: the except clause takes
\* it when it is a BotoServerError, otherwise it leaves get_config.
Raise(e, at) ==
    /\ exc' = [cls |-> e.cls, code |-> e.code, at |-> at]
    /\ pc' = IF Caught(e) THEN "except" ELSE "raised"
    /\ throttleBudget' = IF e.code = "Throttling" THEN throttleBudget - 1
                         ELSE throttleBudget

Last(groups) == IF Len(groups) = 0 THEN <<>> ELSE <<groups[Len(groups)]>>

\* next(iter(groups), None)
First(groups) == IF Len(groups) = 0 THEN <<>> ELSE <<groups[1]>>

NeverFalsy(a) == FALSE

\* not asg: None and the empty dict are false.
NotTruthy(a) == Len(a) = 0 \/ DOMAIN a[1] = {}

DescribeOnceThenCached ==
    /\ pc = "describe"
    /\ IF Len(asg) = 1
       THEN /\ pc' = "build"
            /\ UNCHANGED <<asg, result, exc, throttleBudget, calls>>
       ELSE /\ calls' = [calls EXCEPT !.describe = @ + 1]
            /\ \E out \in CallOutcomes :
                IF out # NoExc
                THEN /\ Raise(out, "describe")
                     /\ UNCHANGED <<asg, result>>
                ELSE /\ asg' = First(provider.groups)
                     /\ IF NotTruthy(asg')
                        THEN pc' = "done" /\ result' = <<EmptyDict>>
                        ELSE pc' = "build" /\ result' = result
                     /\ UNCHANGED <<exc, throttleBudget>>
    /\ UNCHANGED <<retries, ret, sleeps, slept, log, provider, running, parked>>

\* asg = next(iter(paginate(...).build_full_result()["AutoScalingGroups"]), None)
\* if not asg: return {}
DescribeAutoScalingGroups ==
    /\ pc = "describe"
    /\ calls' = [calls EXCEPT !.describe = @ + 1]
    /\ \E out \in CallOutcomes :
        IF out # NoExc
        THEN /\ Raise(out, "describe")
             /\ UNCHANGED <<asg, result>>
        ELSE /\ asg' = First(provider.groups)
             /\ IF NotTruthy(asg')
                THEN pc' = "done" /\ result' = <<EmptyDict>>
                ELSE pc' = "build" /\ result' = result
             /\ UNCHANGED <<exc, throttleBudget>>
    /\ UNCHANGED <<retries, ret, sleeps, slept, log, provider, running, parked>>

\* ret = odict.OrderedDict(); for attr, keyname in attr_key_lookup.items(): ...
BuildAttributes ==
    /\ pc = "build"
    /\ LET built == BuildFrom(1, asg[1], EmptyDict)
       IN  /\ ret' = built.ret
           /\ IF built.exc # ""
              THEN Raise([cls |-> built.exc, code |-> ""], "build")
              ELSE pc' = "policies" /\ UNCHANGED <<exc, throttleBudget>>
    /\ UNCHANGED <<retries, asg, result, calls, sleeps, slept, log, provider, running, parked>>

\* policies = conn.get_all_policies(as_group=name) and the loop over them
GetAllPolicies ==
    /\ pc = "policies"
    /\ calls' = [calls EXCEPT !.policies = @ + 1]
    /\ \E out \in CallOutcomes :
        IF out # NoExc
        THEN /\ Raise(out, "policies")
             /\ UNCHANGED ret
        ELSE /\ ret' = DictSet(ret, "scaling_policies",
                    [i \in 1..Len(provider.policies) |-> ConvertPolicy(provider.policies[i])])
             /\ pc' = "actions"
             /\ UNCHANGED <<exc, throttleBudget>>
    /\ UNCHANGED <<retries, asg, result, sleeps, slept, log, provider, running, parked>>

\* actions = conn.get_all_scheduled_actions(as_group=name), the loop over
\* them, and return ret
GetAllScheduledActions ==
    /\ pc = "actions"
    /\ calls' = [calls EXCEPT !.actions = @ + 1]
    /\ \E out \in CallOutcomes :
        IF out # NoExc
        THEN /\ Raise(out, "actions")
             /\ UNCHANGED <<ret, result>>
        ELSE LET built == ActionsFrom(1, provider.actions, <<>>)
             IN  /\ ret' = DictSet(ret, "scheduled_actions", built.dict)
                 /\ IF built.exc # ""
                    THEN /\ Raise([cls |-> built.exc, code |-> ""], "actions")
                         /\ result' = result
                    ELSE /\ pc' = "done"
                         /\ result' = <<ret'>>
                         /\ UNCHANGED <<exc, throttleBudget>>
    /\ UNCHANGED <<retries, asg, sleeps, slept, log, provider, running, parked>>

ErrorReturnValueIsRet == ret

\* return {} at the end of the except clause
ErrorReturnValue == EmptyDict

HandleBotoServerErrorNoSleep ==
    /\ pc = "except"
    /\ IF ShouldRetry(retries, exc)
       THEN /\ log' = [log EXCEPT !.debug = @ + 1]
            /\ retries' = retries - 1
            /\ exc' = NoExc
            /\ pc' = "describe"
            /\ UNCHANGED <<result, sleeps, slept>>
       ELSE /\ log' = [log EXCEPT !.error = @ + 1]
            /\ result' = <<ErrorReturnValue>>
            /\ pc' = "done"
            /\ UNCHANGED <<sleeps, slept, retries, exc>>
    /\ UNCHANGED <<asg, ret, calls, provider, throttleBudget, running, parked>>

HandleBotoServerErrorNoDecrement ==
    /\ pc = "except"
    /\ IF ShouldRetry(retries, exc)
       THEN /\ log' = [log EXCEPT !.debug = @ + 1]
            /\ sleeps' = sleeps + 1
            /\ slept' = slept + SleepSeconds
            /\ exc' = NoExc
            /\ pc' = "describe"
            /\ UNCHANGED <<result, retries>>
       ELSE /\ log' = [log EXCEPT !.error = @ + 1]
            /\ result' = <<ErrorReturnValue>>
            /\ pc' = "done"
            /\ UNCHANGED <<sleeps, slept, retries, exc>>
    /\ UNCHANGED <<asg, ret, calls, provider, throttleBudget, running, parked>>

\* except boto.exception.BotoServerError as e: sleep and retry, or log the
\* error and return {}
HandleBotoServerError ==
    /\ pc = "except"
    /\ IF ShouldRetry(retries, exc)
       THEN /\ log' = [log EXCEPT !.debug = @ + 1]
            /\ sleeps' = sleeps + 1
            /\ slept' = slept + SleepSeconds
            /\ retries' = retries - 1
            /\ exc' = NoExc
            /\ pc' = "describe"
            /\ result' = result
       ELSE /\ log' = [log EXCEPT !.error = @ + 1]
            /\ result' = <<ErrorReturnValue>>
            /\ pc' = "done"
            /\ UNCHANGED <<sleeps, slept, retries, exc>>
    /\ UNCHANGED <<asg, ret, calls, provider, throttleBudget, running, parked>>

Next ==
    \/ DescribeAutoScalingGroups
    \/ BuildAttributes
    \/ GetAllPolicies
    \/ GetAllScheduledActions
    \/ HandleBotoServerError

Spec == Init /\ [][Next]_vars

DataSpec == InitData /\ [][Next]_vars

\* What the provider holds when an invocation begins, and what it may hold
\* after that: another group with other policies and actions, a group that
\* lost its policies and actions, or no group.
FirstWorld == WorldOf(<<WebAsg>>, <<Policy1, Policy2>>, <<Action1>>)

ChangedWorlds ==
    {WorldOf(<<OtherGroup>>, <<Policy2>>,
             <<Action("morning-scale", 2, PyInt(2), PyDatetime(1), PyDatetime(2))>>),
     WorldOf(<<OtherGroup>>, <<>>, <<>>),
     WorldOf(<<>>, <<>>, <<>>)}

InitChange ==
    /\ InitLocals
    /\ provider = FirstWorld
    /\ throttleBudget = ChangeThrottles

\* Between two attempts, during the sleep, the provider's data change.
ProviderChanges ==
    /\ pc = "describe"
    /\ sleeps > 0
    /\ provider' \in (ChangedWorlds \cup {FirstWorld}) \ {provider}
    /\ UNCHANGED <<pc, retries, asg, ret, exc, result, calls, sleeps, slept, log,
                   throttleBudget, running, parked>>

ChangeNext == Next \/ ProviderChanges

\* One invocation whose provider's data change between attempts.
ChangeSpec == InitChange /\ [][ChangeNext]_vars

\* The locals of the running invocation.
Locals ==
    [pc |-> pc, retries |-> retries, asg |-> asg, ret |-> ret, exc |-> exc,
     result |-> result, calls |-> calls, sleeps |-> sleeps, slept |-> slept]

SwitchSharingRetries ==
    /\ running' = 3 - running
    /\ parked' = Locals
    /\ pc' = parked.pc
    /\ asg' = parked.asg
    /\ ret' = parked.ret
    /\ exc' = parked.exc
    /\ result' = parked.result
    /\ calls' = parked.calls
    /\ sleeps' = parked.sleeps
    /\ slept' = parked.slept
    /\ UNCHANGED <<retries, log, provider, throttleBudget>>

\* The other invocation runs from here on: every name assigned in get_config
\* is a local of the call, so each invocation finds its own values again.
Switch ==
    /\ running' = 3 - running
    /\ parked' = Locals
    /\ pc' = parked.pc
    /\ retries' = parked.retries
    /\ asg' = parked.asg
    /\ ret' = parked.ret
    /\ exc' = parked.exc
    /\ result' = parked.result
    /\ calls' = parked.calls
    /\ sleeps' = parked.sleeps
    /\ slept' = parked.slept
    /\ UNCHANGED <<log, provider, throttleBudget>>

TwoWorlds == {World(<<WebAsg>>), WorldOf(<<OtherGroup>>, <<Policy2>>, <<>>)}

InitTwo ==
    /\ InitLocals
    /\ provider \in TwoWorlds
    /\ throttleBudget = TwoThrottles

TwoNext == Next \/ Switch

\* Two invocations of get_config, interleaved at every step.
TwoSpec == InitTwo /\ [][TwoNext]_vars

\* Every provider call returns or raises, and the interpreter goes on to the
\* next statement: a step that can be taken is taken.
FairSpec == Spec /\ WF_vars(Next)

-----------------------------------------------------------------------------
(* Vocabulary of the properties *)

FetchSites == {"policies", "actions"}

Throttled(at) ==
    exc.cls = "BotoServerError" /\ exc.code = "Throttling" /\ exc.at = at

Returned == pc = "done" /\ Len(result) = 1

ReturnedEmpty == Returned /\ Len(result[1]) = 0

ReturnedRecord == Returned /\ Len(result[1]) > 0

\* The keys of a populated record, in the order of the output contract.
PopulatedKeys ==
    <<"name", "availability_zones", "default_cooldown", "desired_capacity",
      "health_check_period", "health_check_type", "launch_config_name",
      "load_balancers", "max_size", "min_size", "vpc_zone_identifier", "tags",
      "termination_policies", "suspended_processes", "scaling_policies",
      "scheduled_actions">>

KeySet(d) == {d[i][1] : i \in 1..Len(d)}

\* ids joined with commas
RECURSIVE Join(_)
Join(ids) ==
    IF Len(ids) = 0 THEN <<>>
    ELSE IF Len(ids) = 1 THEN ids[1]
    ELSE ids[1] \o <<",">> \o Join(Tail(ids))

Count(seq, x) == Cardinality({i \in 1..Len(seq) : seq[i] = x})

\* The first group the provider holds, and the values the properties read.
HeldGroup == provider.groups[1]

\* The provider fields of the rename table.
RenamedFields ==
    {"AutoScalingGroupName", "AvailabilityZones", "DefaultCooldown",
     "DesiredCapacity", "HealthCheckGracePeriod", "HealthCheckType",
     "LaunchConfigurationName", "LoadBalancerNames", "MaxSize", "MinSize",
     "VPCZoneIdentifier", "Tags", "TerminationPolicies", "SuspendedProcesses"}

TagLacksField(g) ==
    /\ "Tags" \in DOMAIN g
    /\ \E i \in 1..Len(g["Tags"]) :
        ~({"Key", "Value", "PropagateAtLaunch"} \subseteq DOMAIN g["Tags"][i])

\* The group record has every field the attribute loop reads.
Complete(g) ==
    /\ RenamedFields \subseteq DOMAIN g
    /\ ~TagLacksField(g)
    /\ \A i \in 1..Len(g["SuspendedProcesses"]) :
        "ProcessName" \in DOMAIN g["SuspendedProcesses"][i]

HeldVpc == HeldGroup.VPCZoneIdentifier

HeldProcessNames ==
    [i \in 1..Len(HeldGroup.SuspendedProcesses) |->
        HeldGroup.SuspendedProcesses[i].ProcessName]

-----------------------------------------------------------------------------
(* C1 *)

\* Every describe call so far has failed with Throttling and the invocation
\* has ended: no describe call got as far as the policy fetch.
AlwaysThrottledEnd == pc = "done" /\ Throttled("describe") /\ calls.policies = 0

\* C1 as stated: when every describe call is throttled, get_config makes
\* exactly 30 describe attempts and then returns the empty record.
C1_AsStated == AlwaysThrottledEnd => (calls.describe = 30 /\ ReturnedEmpty)

\* C1, amended: when every describe call is throttled, get_config makes
\* exactly 31 describe attempts (the first and 30 retries), sleeps 30 times
\* between them and then returns the empty record; while the throttling
\* lasts it never makes a 32nd attempt.
C1_ThirtyOneAttempts ==
    /\ AlwaysThrottledEnd =>
        (calls.describe = 31 /\ sleeps = 30 /\ retries = 0 /\ ReturnedEmpty)
    /\ (Throttled("describe") /\ calls.policies = 0) => calls.describe <= 31

C1_Witness == AlwaysThrottledEnd /\ calls.describe = 31 /\ ReturnedEmpty

-----------------------------------------------------------------------------
(* C2 *)

\* The describe call failed with Throttling some N < 30 times, then succeeded,
\* and both fetches succeeded, each at its first call.
ThrottledThenSucceeded ==
    /\ Returned
    /\ exc = NoExc
    /\ calls.policies = 1
    /\ calls.actions = 1
    /\ calls.describe - 1 < 30

\* C2: for N < 30, N throttled describe calls followed by a successful one
\* (and successful fetches) end in the populated record built from the
\* describe result, after exactly N sleeps: every such throttling is caught
\* and answered by one sleep and a new describe call, and the record that is
\* then returned carries the attributes of the group described.
C2_RetryThenRecord ==
    /\ [](Throttled("describe") /\ sleeps < 30 => pc = "except")
    /\ [][(pc = "except" /\ Throttled("describe") /\ sleeps < 30)
            => (pc' = "describe" /\ sleeps' = sleeps + 1)]_vars
    /\ [](ThrottledThenSucceeded =>
            /\ sleeps = calls.describe - 1
            /\ ReturnedRecord
            /\ KeySet(result[1]) = {PopulatedKeys[i] : i \in 1..Len(PopulatedKeys)}
            /\ Lookup(result[1], "name") = HeldGroup.AutoScalingGroupName
            /\ Lookup(result[1], "max_size") = HeldGroup.MaxSize)

C2_Witness == ThrottledThenSucceeded /\ ReturnedRecord /\ sleeps = 29 /\ calls.describe = 30

-----------------------------------------------------------------------------
(* C3 *)

\* The last describe call returned normally and the provider holds no group.
DescribedNoGroup == Len(provider.groups) = 0 /\ exc = NoExc /\ pc # "describe"

\* C3: a describe call that succeeds with zero group records ends the
\* invocation at once with the empty record: no policy or scheduled-action
\* call is ever made, and when it was the first describe call there was no
\* sleep and no retry.
C3_NoGroupEmptyRecord ==
    DescribedNoGroup =>
        /\ ReturnedEmpty
        /\ calls.policies = 0
        /\ calls.actions = 0
        /\ calls.describe = sleeps + 1
        /\ (calls.describe = 1 => sleeps = 0 /\ slept = 0 /\ retries = 30)

C3_Witness == DescribedNoGroup /\ calls.describe = 1 /\ ReturnedEmpty /\ sleeps = 0

-----------------------------------------------------------------------------
(* C4 *)

FetchThrottled == pc = "except" /\ (Throttled("policies") \/ Throttled("actions"))

\* C4 as stated: a Throttling error raised by the policy fetch or the
\* scheduled-action fetch causes no sleep and no further describe call.
C4_AsStated ==
    [][FetchThrottled => (sleeps' = sleeps /\ pc' # "describe")]_vars

\* C4, amended: retries apply to the whole attempt.  A Throttling error
\* raised by the policy fetch or the scheduled-action fetch while retries
\* remain causes one 5-second sleep, uses up one retry and restarts the
\* attempt at the describe call; with no retry left it ends the invocation
\* with the empty record and without a sleep.
C4_FetchThrottleRetries ==
    [][FetchThrottled =>
        IF retries > 0
        THEN /\ sleeps' = sleeps + 1
             /\ slept' = slept + 5
             /\ retries' = retries - 1
             /\ pc' = "describe"
             /\ Len(result') = 0
        ELSE /\ sleeps' = sleeps
             /\ pc' = "done"
             /\ result' = <<EmptyDict>>]_vars

\* The first describe call succeeded, the policy fetch was made, and the
\* invocation has slept and is back at the describe call.
C4_Witness ==
    /\ pc = "describe"
    /\ calls.describe = 1
    /\ calls.policies = 1
    /\ sleeps = 1
    /\ retries = 29

-----------------------------------------------------------------------------
(* C5 *)

FetchProviderError == exc.cls = "BotoServerError" /\ exc.at \in FetchSites

\* C5 as stated: a provider error raised by the policy fetch or the
\* scheduled-action fetch is not caught inside get_config and leaves it as a
\* failure.
C5_AsStated == FetchProviderError => pc = "raised"

\* C5, amended: a provider error raised by the policy fetch or the
\* scheduled-action fetch is caught by the same except clause as an error of
\* the describe call and never leaves get_config: with code Throttling and
\* retries left the attempt is retried, otherwise the error is logged and
\* the invocation returns the empty record.
C5_FetchErrorCaught ==
    /\ [](FetchProviderError => pc \in {"except", "done"})
    /\ [](FetchProviderError /\ pc = "done" => ReturnedEmpty /\ log.error = 1)
    /\ [][(FetchProviderError /\ pc = "except") =>
            IF exc.code = "Throttling" /\ retries > 0
            THEN pc' = "describe" /\ log'.error = 0
            ELSE pc' = "done" /\ result' = <<EmptyDict>> /\ log'.error = 1]_vars

C5_Witness ==
    /\ FetchProviderError
    /\ exc.code = "ValidationError"
    /\ exc.at = "actions"
    /\ ReturnedEmpty

-----------------------------------------------------------------------------
(* C6 *)

DescribeOtherError ==
    /\ pc = "except"
    /\ exc.cls = "BotoServerError"
    /\ exc.at = "describe"
    /\ exc.code # "Throttling"

\* C6: a provider error of the describe call whose code is not Throttling
\* ends the invocation in the next step with the empty record, whatever the
\* number of retries left: no sleep, no retry used, no further provider call,
\* and nothing happens after the return.
C6_OtherErrorAborts ==
    /\ [][DescribeOtherError =>
            /\ pc' = "done"
            /\ result' = <<EmptyDict>>
            /\ sleeps' = sleeps
            /\ slept' = slept
            /\ retries' = retries
            /\ calls' = calls]_vars
    /\ [][pc # "done"]_vars

C6_Witness ==
    /\ ReturnedEmpty
    /\ exc.cls = "BotoServerError"
    /\ exc.at = "describe"
    /\ exc.code = "ValidationError"
    /\ retries = 17
    /\ calls.describe = 14

-----------------------------------------------------------------------------
(* C7 *)

\* C7: an invocation that has ended has either returned a record with every
\* one of the sixteen keys, or returned the empty record, or let an exception
\* through without returning anything; a value is returned only by an
\* invocation that has ended.
C7_NoPartialRecord ==
    /\ Len(result) = 1 <=> pc = "done"
    /\ pc = "done" =>
        \/ Len(result[1]) = 0
        \/ /\ KeySet(result[1]) = {PopulatedKeys[i] : i \in 1..Len(PopulatedKeys)}
           /\ Len(result[1]) = Len(PopulatedKeys)
    /\ pc = "raised" => (exc.cls # "BotoServerError" /\ Len(result) = 0)

\* The record under construction held some of the keys when a provider error
\* ended the invocation with the empty record.
C7_Witness ==
    /\ ReturnedEmpty
    /\ Len(ret) \in {14, 15}
    /\ exc.at \in FetchSites

-----------------------------------------------------------------------------
(* C8 *)

\* The attribute loop has run on the group the provider holds, a record with
\* every field.
AttributesBuilt ==
    /\ Len(asg) = 1
    /\ pc \notin {"describe", "build"}
    /\ Complete(HeldGroup)

VpcOut(d) == Lookup(d, "vpc_zone_identifier")

\* The output is the list of ids: on ret once built, and on the record returned.
VpcIs(ids) ==
    /\ exc.at # "build"
    /\ HasKey(ret, "vpc_zone_identifier")
    /\ VpcOut(ret) = NativeList(ids)
    /\ ReturnedRecord => VpcOut(result[1]) = NativeList(ids)

\* C8 as stated: whether VPCZoneIdentifier is the comma-joined string of some
\* ids or the native list of them, the attribute loop completes and
\* vpc_zone_identifier is the sequence of those ids in the same order.
C8_AsStated ==
    \A ids \in SubnetLists :
        (/\ AttributesBuilt
         /\ \/ HeldVpc.t = "str" /\ HeldVpc.v = Join(ids)
            \/ HeldVpc = NativeList(ids))
        => VpcIs(ids)

\* C8, amended: for a VPCZoneIdentifier that is a string, vpc_zone_identifier
\* is the sequence of its comma-free pieces in order (joined by commas they
\* give the string back), so the comma-joined string of one or more
\* non-empty ids gives exactly those ids and the empty string gives the
\* one-element sequence [""]; for a native list the split raises an
\* AttributeError that get_config does not catch, and nothing is returned.
C8_SplitOfString ==
    AttributesBuilt =>
        IF HeldVpc.t = "str"
        THEN /\ exc.at # "build"
             /\ HasKey(ret, "vpc_zone_identifier")
             /\ LET out == VpcOut(ret).v
                    pieces == [i \in 1..Len(out) |-> out[i].v]
                IN  /\ VpcOut(ret).t = "list"
                    /\ Len(out) >= 1
                    /\ \A i \in 1..Len(out) :
                          out[i].t = "str" /\ FindComma(out[i].v, 1) = 0
                    /\ Join(pieces) = HeldVpc.v
                    /\ \A ids \in SubnetLists :
                          (Len(ids) >= 1 /\ HeldVpc.v = Join(ids)) => pieces = ids
             /\ ReturnedRecord => VpcOut(result[1]) = VpcOut(ret)
        ELSE /\ pc = "raised"
             /\ exc = [cls |-> "AttributeError", code |-> "", at |-> "build"]
             /\ Len(result) = 0
             /\ ~HasKey(ret, "vpc_zone_identifier")

C8_Witness ==
    /\ ReturnedRecord
    /\ HeldVpc = PyStr(<<"b", ",", "a">>)
    /\ VpcOut(result[1]) = NativeList(<< <<"b">>, <<"a">> >>)

-----------------------------------------------------------------------------
(* C9 *)

\* C9: a populated record that is returned has exactly the sixteen keys of
\* the output contract in their fixed order, and no placement-group key.
C9_KeyOrder ==
    ReturnedRecord =>
        /\ Keys(result[1]) = PopulatedKeys
        /\ "placement_group" \notin KeySet(result[1])

C9_Witness == ReturnedRecord /\ Len(result[1]) = 16 /\ sleeps = 2

-----------------------------------------------------------------------------
(* C10 *)

IsAscending(names) ==
    \A i \in 1..Len(names) : \A j \in 1..Len(names) :
        i < j => ~StrLess(names[j], names[i])

SameNames(out, inp) ==
    /\ Len(out) = Len(inp)
    /\ \A n \in ProcessNames : Count(out, n) = Count(inp, n)

\* C10: the suspended_processes of a returned record holds exactly the
\* process names of the provider's list, each as often as there, in ascending
\* lexicographic order, whatever the order of the provider's list.
C10_SuspendedSorted ==
    ReturnedRecord =>
        LET out == Lookup(result[1], "suspended_processes")
        IN  SameNames(out, HeldProcessNames) /\ IsAscending(out)

\* The provider lists "a" before "A"; the record returned lists "A" first.
C10_Witness ==
    /\ ReturnedRecord
    /\ HeldProcessNames = << <<"a">>, <<"A">> >>
    /\ Lookup(result[1], "suspended_processes") = << <<"A">>, <<"a">> >>

-----------------------------------------------------------------------------
(* Vocabulary of the properties on scheduled actions *)

HeldActions == provider.actions

\* No later action of the provider's list has the name of action i.
LastOfName(i) ==
    \A j \in (i + 1)..Len(HeldActions) : HeldActions[j].name # HeldActions[i].name

\* The conversion of the scheduled actions raised and the exception left
\* get_config.
ConversionFailed ==
    /\ pc = "raised"
    /\ exc.at = "actions"
    /\ exc.cls \in {"ValueError", "TypeError", "AttributeError"}
    /\ Len(result) = 0

\* The scheduled-action call of the last attempt has answered.
ActionsAnswered == ReturnedRecord \/ ConversionFailed

ActionsOut == Lookup(result[1], "scheduled_actions")

DigitOf(c) ==
    CASE c = "0" -> 0
      [] c = "3" -> 3
      [] c = "4" -> 4
      [] OTHER -> -1

AllDigits(chars) ==
    Len(chars) >= 1 /\ \A i \in 1..Len(chars) : DigitOf(chars[i]) >= 0

\* The number a run of digits denotes in base ten.
RECURSIVE DecimalOf(_)
DecimalOf(chars) ==
    IF Len(chars) = 0 THEN 0
    ELSE 10 * DecimalOf(SubSeq(chars, 1, Len(chars) - 1)) + DigitOf(chars[Len(chars)])

\* Digits, a point, digits: "4.0".
PointAt(chars, k) ==
    /\ chars[k] = "."
    /\ AllDigits(SubSeq(chars, 1, k - 1))
    /\ AllDigits(SubSeq(chars, k + 1, Len(chars)))

FloatLike(chars) == \E k \in 1..Len(chars) : PointAt(chars, k)

NumericLike(x) ==
    \/ x.t \in {"int", "float"}
    \/ x.t = "str" /\ (AllDigits(x.v) \/ FloatLike(x.v))

\* The integer a numeric value stands for: the value itself, or its whole part.
MeantInteger(x) ==
    IF x.t \in {"int", "float"} THEN x.v[1]
    ELSE IF AllDigits(x.v) THEN DecimalOf(x.v)
    ELSE DecimalOf(SubSeq(x.v, 1, (CHOOSE k \in 1..Len(x.v) : PointAt(x.v, k)) - 1))

\* int() accepts the value: an int, a float, or a str of digits only.
Convertible(x) == x.t \in {"int", "float"} \/ (x.t = "str" /\ AllDigits(x.v))

IsoOrNull(x) == IF x.t = "None" THEN PyNone ELSE [t |-> "isostr", v |-> x.v]

AllStartsPresent == \A i \in 1..Len(HeldActions) : HeldActions[i].start_time.t # "None"

AllCapsConvertible == \A i \in 1..Len(HeldActions) : Convertible(HeldActions[i].desired_capacity)

-----------------------------------------------------------------------------
(* C11 *)

-----------------------------------------------------------------------------
(* C13 *)

\* C13 as stated: each of start_time and end_time is output as its ISO-8601
\* string when the provider reports it and as null when it reports none, and
\* an absent timestamp never makes get_config fail.
C13_AsStated ==
    (ActionsAnswered /\ AllCapsConvertible)
    => /\ ReturnedRecord
       /\ \A i \in 1..Len(HeldActions) :
            LastOfName(i) =>
                /\ ActionsOut[HeldActions[i].name].start_time
                    = IsoOrNull(HeldActions[i].start_time)
                /\ ActionsOut[HeldActions[i].name].end_time
                    = IsoOrNull(HeldActions[i].end_time)

\* C13, amended: end_time is output as its ISO-8601 string when the provider
\* reports it and as null when it reports none; start_time is output as its
\* ISO-8601 string when reported, and an absent start_time raises an
\* AttributeError that get_config does not catch, so nothing is returned.
C13_EndNullStartRequired ==
    (ActionsAnswered /\ AllCapsConvertible)
    => /\ (~AllStartsPresent) <=> (ConversionFailed /\ exc.cls = "AttributeError")
       /\ AllStartsPresent <=> ReturnedRecord
       /\ ReturnedRecord =>
            \A i \in 1..Len(HeldActions) :
                LastOfName(i) =>
                    /\ ActionsOut[HeldActions[i].name].start_time
                        = [t |-> "isostr", v |-> HeldActions[i].start_time.v]
                    /\ ActionsOut[HeldActions[i].name].end_time
                        = IsoOrNull(HeldActions[i].end_time)

\* An action with a start time and no end time was returned with a null end.
C13_Witness ==
    /\ ReturnedRecord
    /\ Len(HeldActions) = 1
    /\ HeldActions[1].start_time = PyDatetime(1)
    /\ HeldActions[1].end_time = PyNone
    /\ ActionsOut[HeldActions[1].name].end_time = PyNone
    /\ ActionsOut[HeldActions[1].name].start_time.t = "isostr"

-----------------------------------------------------------------------------
(* C15 *)

\* C15: scheduled_actions of a returned record is keyed by action name, with
\* one entry per distinct name of the provider's list, and the entry of a
\* name holds the values of the last provider action of that name.
C15_LastNameWins ==
    ReturnedRecord =>
        /\ DOMAIN ActionsOut = {HeldActions[i].name : i \in 1..Len(HeldActions)}
        /\ \A i \in 1..Len(HeldActions) :
            LastOfName(i) =>
                /\ ActionsOut[HeldActions[i].name].min_size = HeldActions[i].min_size
                /\ ActionsOut[HeldActions[i].name].max_size = HeldActions[i].max_size
                /\ ActionsOut[HeldActions[i].name].recurrence = HeldActions[i].recurrence

\* Two provider actions share a name; the entry returned is the second's.
C15_Witness ==
    /\ ReturnedRecord
    /\ Len(HeldActions) = 2
    /\ HeldActions[1].name = HeldActions[2].name
    /\ HeldActions[1].min_size = 1
    /\ HeldActions[2].min_size = 2
    /\ ActionsOut[HeldActions[2].name].min_size = 2

-----------------------------------------------------------------------------
(* C14 *)

\* C14: when the provider holds more than one group record, asg is the first
\* of them, a later record (even one that could not be converted) raises
\* nothing, and a returned record carries the first record's attributes and
\* none of a later record's that differ from them.
C14_FirstGroupOnly ==
    Len(provider.groups) > 1 =>
        /\ Len(asg) = 1 => asg[1] = provider.groups[1]
        /\ exc.at # "build"
        /\ ReturnedRecord =>
            /\ Lookup(result[1], "name") = provider.groups[1].AutoScalingGroupName
            /\ Lookup(result[1], "max_size") = provider.groups[1].MaxSize
            /\ Lookup(result[1], "min_size") = provider.groups[1].MinSize
            /\ Len(Lookup(result[1], "tags")) = Len(provider.groups[1].Tags)
            /\ VpcOut(result[1]).v[1] = provider.groups[1].VPCZoneIdentifier
            /\ Len(Lookup(result[1], "suspended_processes"))
                = Len(provider.groups[1].SuspendedProcesses)

\* Two different groups are held and the record of the first is returned.
C14_Witness ==
    /\ ReturnedRecord
    /\ Len(provider.groups) = 2
    /\ provider.groups[2].AutoScalingGroupName = "web-asg"
    /\ Lookup(result[1], "name") = "other-asg"
    /\ Lookup(result[1], "max_size") = 20

-----------------------------------------------------------------------------
(* C16 *)

\* The first group record lacks a field of the rename table, or one of its
\* tags lacks Key, Value or PropagateAtLaunch.
FirstLacksField ==
    /\ Len(provider.groups) >= 1
    /\ \/ ~(RenamedFields \subseteq DOMAIN provider.groups[1])
       \/ TagLacksField(provider.groups[1])

\* The last describe call has returned normally.
DescribeAnswered == pc \notin {"describe", "except"} /\ exc.at # "describe"

FailedOnMissingField ==
    /\ pc = "raised"
    /\ exc = [cls |-> "KeyError", code |-> "", at |-> "build"]
    /\ Len(result) = 0

\* C16 as stated: when the first group record lacks a field, get_config ends
\* as an uncaught failure and returns neither the empty record nor any other.
C16_AsStated ==
    (FirstLacksField /\ DescribeAnswered) => (pc = "build" \/ FailedOnMissingField)

\* C16, amended: when the first group record has at least one field and
\* lacks a field of the rename table (or a tag lacks Key, Value or
\* PropagateAtLaunch), get_config ends as an uncaught KeyError: it returns
\* nothing, neither fetch is called for that attempt, and the failure uses up
\* no retry and causes no sleep.  A first record with no field at all is false
\* in `if not asg`, and get_config returns the empty record.
C16_KeyErrorUncaught ==
    (FirstLacksField /\ DescribeAnswered) =>
        IF DOMAIN provider.groups[1] # {}
        THEN /\ pc = "build" \/ FailedOnMissingField
             /\ calls.policies = 0
             /\ calls.actions = 0
             /\ calls.describe = sleeps + 1
             /\ retries = 30 - sleeps
             /\ log.error = 0
        ELSE ReturnedEmpty /\ exc = NoExc /\ calls.policies = 0

\* A record without MaxSize: the KeyError left get_config after eight
\* attributes had been stored.
C16_Witness ==
    /\ FailedOnMissingField
    /\ "MaxSize" \notin DOMAIN provider.groups[1]
    /\ "MinSize" \in DOMAIN provider.groups[1]
    /\ Len(ret) = 8

-----------------------------------------------------------------------------
(* C12 *)

\* Where the three provider calls stand with respect to one another.
LinearOrderState ==
    /\ calls.actions <= calls.policies
    /\ calls.policies <= calls.describe
    /\ calls.describe <= sleeps + 1
    /\ pc \in {"build", "policies", "actions"} =>
        /\ Len(provider.groups) > 0
        /\ asg = <<provider.groups[1]>>
        /\ calls.describe = sleeps + 1
    /\ calls.policies > 0 => Len(provider.groups) > 0
    /\ pc = "policies" => ~HasKey(ret, "scaling_policies")
    /\ pc = "actions" =>
        /\ HasKey(ret, "scaling_policies")
        /\ ~HasKey(ret, "scheduled_actions")
    /\ sleeps = 0 =>
        /\ calls.describe <= 1
        /\ calls.policies <= 1
        /\ calls.actions <= 1

\* A fetch is called in the step that follows the call before it.
LinearOrderStep ==
    /\ calls.describe' > calls.describe => pc = "describe"
    /\ calls.policies' > calls.policies =>
        /\ pc = "policies"
        /\ calls.policies < calls.describe
        /\ calls' = [calls EXCEPT !.policies = @ + 1]
    /\ calls.actions' > calls.actions =>
        /\ pc = "actions"
        /\ calls.actions < calls.policies
        /\ calls' = [calls EXCEPT !.actions = @ + 1]
    /\ pc' = "policies" => pc = "build"
    /\ pc' = "build" => pc = "describe" /\ calls.describe' = calls.describe + 1
    /\ pc' = "actions" => pc = "policies" /\ exc' = NoExc

\* C12: the provider calls of an invocation follow the order describe,
\* policy fetch, scheduled-action fetch: the policy fetch is called only
\* after a describe call of the invocation has returned a non-empty group
\* list, the scheduled-action fetch only after the policy fetch has returned,
\* and an invocation that met no throttling calls each of them at most once.
C12_LinearOrder == []LinearOrderState /\ [][LinearOrderStep]_vars

\* All three calls have been made once, in an invocation that never slept.
C12_Witness ==
    /\ ReturnedRecord
    /\ sleeps = 0
    /\ calls = [describe |-> 1, policies |-> 1, actions |-> 1]

-----------------------------------------------------------------------------
(* C18 *)

\* A handler step that sleeps: it adds one sleep of 5 seconds, uses up one
\* retry, follows a throttled attempt and leads to the next describe call.
OneFixedWait ==
    (sleeps' # sleeps \/ slept' # slept) =>
        /\ sleeps' = sleeps + 1
        /\ slept' = slept + 5
        /\ pc = "except" /\ exc.code = "Throttling"
        /\ pc' = "describe"
        /\ calls' = calls

\* From a throttled attempt the next attempt is reached through a sleep only.
WaitBeforeNextAttempt ==
    (pc = "except" /\ pc' = "describe") => sleeps' = sleeps + 1

\* C18: every backoff wait lasts exactly 5 seconds whatever the attempt
\* number, exactly one wait happens between a throttled attempt and the next
\* attempt, and the time slept is 5 seconds times the number of retries.
C18_FixedBackoff ==
    /\ [](slept = 5 * sleeps /\ sleeps = 30 - retries
          /\ (calls.describe > 0 => sleeps \in {calls.describe - 1, calls.describe}))
    /\ [][OneFixedWait /\ WaitBeforeNextAttempt]_vars

\* Three waits have been made and a fourth attempt has begun.
C18_Witness ==
    /\ sleeps = 3
    /\ slept = 15
    /\ calls.describe = 4
    /\ pc # "describe"

-----------------------------------------------------------------------------
(* C19 *)

Ended == pc \in {"done", "raised"}

\* C19: every invocation ends, by a return or by a failure raised to the
\* caller, whatever the provider answers at any of the three calls; before
\* that it makes at most 31 describe calls and sleeps at most 30 times, 150
\* seconds in all; the retry counter never increases.
C19_Terminates ==
    /\ [](/\ calls.describe <= 31
          /\ sleeps <= 30
          /\ slept <= 150
          /\ retries \in 0..30)
    /\ [][retries' <= retries]_vars
    /\ <>Ended

\* The last retry was used up by throttling met at the policy fetch and at
\* the scheduled-action fetch as well as at the describe call.
C19_Witness ==
    /\ Ended
    /\ calls.describe = 31
    /\ sleeps = 30
    /\ slept = 150
    /\ calls.policies > 0
    /\ calls.actions > 0

-----------------------------------------------------------------------------
(* C20 *)

PolicyNames(ps) == [i \in 1..Len(ps) |-> ps[i].name]

\* The returned record holds what the provider holds now, and nothing else.
FromProviderNow ==
    /\ Len(provider.groups) > 0
    /\ Keys(result[1]) = PopulatedKeys
    /\ Lookup(result[1], "name") = provider.groups[1].AutoScalingGroupName
    /\ Lookup(result[1], "max_size") = provider.groups[1].MaxSize
    /\ Lookup(result[1], "min_size") = provider.groups[1].MinSize
    /\ Lookup(result[1], "desired_capacity") = provider.groups[1].DesiredCapacity
    /\ Len(Lookup(result[1], "tags")) = Len(provider.groups[1].Tags)
    /\ Join([i \in 1..Len(VpcOut(result[1]).v) |-> VpcOut(result[1]).v[i].v])
        = provider.groups[1].VPCZoneIdentifier.v
    /\ Len(Lookup(result[1], "suspended_processes"))
        = Len(provider.groups[1].SuspendedProcesses)
    /\ PolicyNames(Lookup(result[1], "scaling_policies")) = PolicyNames(provider.policies)
    /\ DOMAIN Lookup(result[1], "scheduled_actions")
        = {provider.actions[i].name : i \in 1..Len(provider.actions)}

\* An attempt begins with a describe call whose first record becomes asg, and
\* a record is returned by the scheduled-action fetch of that attempt.
AttemptFromScratch ==
    /\ pc' = "build" =>
        /\ pc = "describe"
        /\ calls.describe' = calls.describe + 1
        /\ asg' = <<provider.groups[1]>>
    /\ (pc' = "policies" /\ pc = "build") =>
        Keys(ret') = SubSeq(PopulatedKeys, 1, 14)

\* C20: a record returned after one or more retries is that of the final
\* attempt: every attempt calls describe again and builds a new record, so
\* the returned group attributes, policies and scheduled actions are those
\* the provider held during the final attempt, and when the group has gone
\* the empty record is returned.
C20_FinalAttemptOnly ==
    /\ [](ReturnedRecord => FromProviderNow)
    /\ []((ReturnedEmpty /\ exc = NoExc) => Len(provider.groups) = 0)
    /\ [][AttemptFromScratch]_vars

\* The first attempt built the attributes and fetched the policies of the
\* first world and was throttled; the data changed; the record returned is
\* that of the other group.
C20_Witness ==
    /\ ReturnedRecord
    /\ sleeps >= 1
    /\ calls.actions = 2
    /\ provider # FirstWorld
    /\ Lookup(result[1], "name") = "other-asg"
    /\ Len(Lookup(result[1], "scaling_policies")) = 1

-----------------------------------------------------------------------------
(* C17 *)

\* What holds of the locals l of one invocation whatever the other does: its
\* retry counter has lost one per sleep of its own, and a record it returned
\* is the one built from the answers to its own calls.
OwnState(l) ==
    /\ l.retries = 30 - l.sleeps
    /\ l.slept = 5 * l.sleeps
    /\ l.calls.describe \in {l.sleeps, l.sleeps + 1}
    /\ l.calls.actions <= l.calls.policies
    /\ l.calls.policies <= l.calls.describe
    /\ (l.pc = "done" /\ l.exc = NoExc) =>
        /\ Len(l.result) = 1
        /\ Keys(l.result[1]) = PopulatedKeys
        /\ Lookup(l.result[1], "name") = l.asg[1].AutoScalingGroupName
        /\ l.asg = <<provider.groups[1]>>
        /\ Len(Lookup(l.result[1], "tags")) = Len(l.asg[1].Tags)
        /\ PolicyNames(Lookup(l.result[1], "scaling_policies"))
            = PolicyNames(provider.policies)
        /\ DOMAIN Lookup(l.result[1], "scheduled_actions")
            = {provider.actions[i].name : i \in 1..Len(provider.actions)}

\* A step of one invocation changes nothing of the other, and a change of the
\* running invocation changes nothing of either.
OwnStep ==
    /\ running' = running => parked' = parked
    /\ running' # running => (parked' = Locals /\ Locals' = parked)

\* C17: two interleaved invocations share no mutable state: the throttling
\* one of them meets uses up none of the other's retries, and the record each
\* returns is built from the answers to its own calls.
C17_Independent ==
    /\ [](OwnState(Locals) /\ OwnState(parked))
    /\ [][OwnStep]_vars

\* Both invocations have returned the record; one of them met all the
\* throttling and the other none.
C17_Witness ==
    /\ pc = "done" /\ parked.pc = "done"
    /\ Len(result[1]) > 0 /\ Len(parked.result[1]) > 0
    /\ sleeps = 2 /\ retries = 28
    /\ parked.sleeps = 0 /\ parked.retries = 30
    /\ parked.calls = [describe |-> 1, policies |-> 1, actions |-> 1]

====
